---- MODULE Spec2Model ----
(***************************************************************************)
(* Model of the otf-api client: the authenticated session and request      *)
(* dispatcher of src/src/otf/api.py and the enum / column-header helpers   *)
(* of src/src/otf_api/models/responses/bookings.py.                        *)
(*                                                                         *)
(* Text that the code inspects character by character (enum keys, column   *)
(* names) is a sequence of one-character strings; header names, hosts and  *)
(* other opaque values are plain strings.                                  *)
(***************************************************************************)
EXTENDS Integers, Sequences, FiniteSets, Bags, TLC

VARIABLES
    pc,              \* position of Api.create / who holds the Api object
    user,            \* Api.user (the credential with its id token)
    session,         \* Api.session (the aiohttp.ClientSession)
    sessionsCreated, \* how many ClientSession objects were constructed
    closeCount,      \* how many times session.close() was performed
    closeRun,        \* the _close_session run that __del__ started
    discarded,       \* __del__ has run
    facades,         \* the Api each resource facade was constructed with
    member,          \* Api.member
    home_studio,     \* Api.home_studio
    calls,           \* bootstrap calls issued by create, in order
    call,            \* arguments of the latest Api._do invocation
    req,             \* the request that invocation handed to the session
    inflight,        \* Api._do coroutines suspended on their response (a bag)
    done,            \* how the latest finished Api._do invocation ended
    key,             \* argument of an enum lookup
    lookup,          \* the lookup applied to it and its outcome
    columns,         \* argument of BookingList.to_table
    table            \* the column headers built for it

apiVars == <<pc, user, session, sessionsCreated, closeCount, closeRun,
             discarded, facades, member, home_studio, calls, call, req, inflight, done>>
enumVars == <<key, lookup>>
tableVars == <<columns, table>>
nonApiVars == <<enumVars, tableVars>>
vars == <<apiVars, enumVars, tableVars>>

----------------------------------------------------------------------------
(* Bounds of the model *)

\* how many Api._do coroutines of one Api may be suspended at the same time
MaxInFlight == 2

----------------------------------------------------------------------------
(* src/src/otf/api.py *)

API_BASE_URL == "api.orangetheory.co"
API_IO_BASE_URL == "api.orangetheory.io"
API_DNA_BASE_URL == "api.yuzu.orangetheory.com"

FacadeNames == {"member_api", "classes_api", "studios_api", "dna_api", "performance_api"}
StudioUUIDs == {"studio-1", "studio-2"}

\* A mapping (Python dict) is a function on a finite set of string keys.
EmptyMap == [k \in {} |-> ""]
NoneVal == "<None>"

NoUser == [present |-> FALSE, id_token |-> "", expired |-> FALSE]
NoSession == [id |-> 0, closed |-> FALSE, closing |-> 0]
NoMember == [present |-> FALSE, home_studio_uuid |-> ""]
NoStudio == [present |-> FALSE, studio_uuid |-> ""]
NoCall == [state |-> "none", base_url |-> "", url |-> <<>>, hasParams |-> FALSE, params |-> EmptyMap,
           hasHeaders |-> FALSE, headers |-> EmptyMap]
NoReq == [nSent |-> 0, host |-> "", url |-> <<>>, params |-> EmptyMap,
          headers |-> EmptyMap, session |-> 0, sentExpired |-> FALSE]
NoDone == [owner |-> "none", nSent |-> 0, status |-> 0, outcome |-> "none", errStatus |-> 0,
           decoded |-> FALSE]

\* User.load_from_disk: the cached token pair, re-derived by authentication
\* when expired, so the token handed to the Api is not expired.
LoadFromDisk == [present |-> TRUE, id_token |-> "id-token", expired |-> FALSE]

\* the id token's expiry time has passed
TokenExpired == user.expired

\* Api.base_headers
BaseHeaders ==
    [k \in {"Authorization", "Content-Type", "Accept"} |->
        IF k = "Authorization" THEN "Bearer " \o user.id_token ELSE "application/json"]

FilterParamsTruthy(hasParams, params) ==
    LET p == IF hasParams THEN params ELSE EmptyMap
    IN  [k \in {x \in DOMAIN p : p[x] \notin {NoneVal, "0", "False", ""}} |-> p[k]]

\* params = params or {}; params = {k: v for k, v in params.items() if v is not None}
FilterParams(hasParams, params) ==
    LET p == IF hasParams /\ DOMAIN params # {} THEN params ELSE EmptyMap
    IN  [k \in {x \in DOMAIN p : p[x] # NoneVal} |-> p[k]]

MergeHeadersCallerWins(hasHeaders, headers) ==
    IF hasHeaders
    THEN [k \in DOMAIN headers \cup DOMAIN BaseHeaders |->
             IF k \in DOMAIN headers THEN headers[k] ELSE BaseHeaders[k]]
    ELSE BaseHeaders

\* headers.update(self.base_headers) when the caller gave headers, else base_headers
MergeHeaders(hasHeaders, headers) ==
    IF hasHeaders
    THEN [k \in DOMAIN headers \cup DOMAIN BaseHeaders |->
             IF k \in DOMAIN BaseHeaders THEN BaseHeaders[k] ELSE headers[k]]
    ELSE BaseHeaders

RequestSessionFresh == sessionsCreated + 1

\* self.session.request(...): the session a dispatch sends on
RequestSession == session.id

\* response.raise_for_status() raises ClientResponseError
RaiseForStatus(status) == status >= 400

\* response statuses: success, not modified, and both sides of the error threshold
Statuses == {200, 304, 399, 400, 404}

\* One Api._do coroutine: who awaits it ("member" and "studio" are create's
\* bootstrap calls, "caller" is a holder of the Api), how far it is ("sent":
\* awaiting the response, "checked": awaiting response.json()), the status it
\* has checked, and how many requests it has handed to the session.
NewDispatch(owner) == [owner |-> owner, phase |-> "started", status |-> 0, nSent |-> 0]

\* self.session.request(...) is entered: one more request of this dispatch
SessionRequest(e) == [e EXCEPT !.phase = "sent", !.nSent = @ + 1]

\* Api._do up to the moment the request is on the wire (lines 94-107)
DoSend(owner, base_url, url, hasParams, params, hasHeaders, headers) ==
    /\ call' = [state |-> "run", base_url |-> base_url, url |-> url, hasParams |-> hasParams,
                params |-> params, hasHeaders |-> hasHeaders, headers |-> headers]
    /\ IF ~user.present
       THEN /\ req' = NoReq
            /\ done' = [NoDone EXCEPT !.owner = owner, !.outcome = "ValueError"]
            /\ inflight' = inflight
       ELSE IF session.closed
       THEN /\ req' = NoReq
            /\ done' = [NoDone EXCEPT !.owner = owner, !.outcome = "RuntimeError"]
            /\ inflight' = inflight
       ELSE /\ req' = [nSent |-> SessionRequest(NewDispatch(owner)).nSent,
                       host |-> base_url, url |-> url,
                       params |-> FilterParams(hasParams, params),
                       headers |-> MergeHeaders(hasHeaders, headers),
                       session |-> RequestSession,
                       sentExpired |-> TokenExpired]
            /\ done' = done
            /\ inflight' = inflight (+) SetToBag({SessionRequest(NewDispatch(owner))})

\* What the facade awaiting a dispatch makes of its JSON: whether the model
\* validates, and the studio UUID it carries. A caller's dispatch has no facade
\* of the Api behind it.
FacadeResults(owner) ==
    IF owner = "caller" THEN {[valid |-> TRUE, uuid |-> ""]}
    ELSE [valid : BOOLEAN, uuid : StudioUUIDs]

\* Api._do returns or raises; when create awaits it, create goes on in the same
\* step: the model the facade built from the JSON is assigned (uuid is the
\* studio UUID the response carries), or the error (of the request, or of the
\* facade building the model) leaves create
Finish(e, status, outcome, errStatus, decoded, result) ==
    /\ inflight' = inflight (-) SetToBag({e})
    /\ done' = [owner |-> e.owner, nSent |-> e.nSent, status |-> status, outcome |-> outcome,
                errStatus |-> errStatus, decoded |-> decoded]
    /\ IF e.owner = "member"
       THEN /\ member' = IF outcome = "json" /\ result.valid
                         THEN [present |-> TRUE, home_studio_uuid |-> result.uuid] ELSE member
            /\ pc' = IF outcome = "json" /\ result.valid THEN "member_loaded" ELSE "create_failed"
            /\ home_studio' = home_studio
       ELSE IF e.owner = "studio"
       THEN /\ home_studio' = IF outcome = "json" /\ result.valid
                              THEN [present |-> TRUE, studio_uuid |-> result.uuid] ELSE home_studio
            /\ pc' = IF outcome = "json" /\ result.valid THEN "ready" ELSE "create_failed"
            /\ member' = member
       ELSE UNCHANGED <<pc, member, home_studio>>

\* Arguments the resource facades pass: (hasParams, params, hasHeaders, headers)
FacadeParams == {[has |-> FALSE, map |-> EmptyMap],
                 [has |-> TRUE, map |-> [k \in {"studioUUIds", "limit"} |->
                                            IF k = "limit" THEN NoneVal ELSE "studio-1"]]}
FacadeHeaders == {[has |-> FALSE, map |-> EmptyMap],
                  [has |-> TRUE, map |-> [k \in {"Authorization", "koji-member-id"} |-> "caller"]]}

----------------------------------------------------------------------------
(* Lifetime of one Api object *)

\* Api.__init__: called by create (cls(username, password)), which goes on
\* with its bootstrap calls, or directly (Api(username, password)), which
\* hands the object to the caller as it is
Construct ==
    /\ pc = "start"
    /\ user' = LoadFromDisk
    /\ sessionsCreated' = sessionsCreated + 1
    /\ session' = [id |-> sessionsCreated + 1, closed |-> FALSE, closing |-> 0]
    /\ facades' = [f \in FacadeNames |-> "self"]
    /\ \E by \in {"create", "direct"} : pc' = IF by = "create" THEN "constructed" ELSE "direct"
    /\ UNCHANGED <<nonApiVars, closeCount, closeRun, discarded, member, home_studio, calls,
                   call, req, inflight, done>>

\* User.load_from_disk raises: the credentials are invalid, and __init__
\* leaves an object without user, session and facades
ConstructAuthFail ==
    /\ pc = "start"
    /\ pc' = "auth_failed"
    /\ UNCHANGED <<nonApiVars, user, session, sessionsCreated, closeCount, closeRun, discarded,
                   facades, member, home_studio, calls, call, req, inflight, done>>

\* self.member = await self.member_api.get_member_detail(): the call goes out
CreateMemberSend ==
    /\ pc = "constructed"
    /\ DoSend("member", API_BASE_URL, <<"member">>, FALSE, EmptyMap, FALSE, EmptyMap)
    /\ calls' = Append(calls, [api |-> "member", arg |-> ""])
    /\ pc' = "member_wait"
    /\ UNCHANGED <<nonApiVars, user, session, sessionsCreated, closeCount, closeRun, discarded,
                   facades, member, home_studio>>

HomeStudioArgDefault == "studio-1"

\* the studio_uuid create passes to get_studio_detail
HomeStudioArg == member.home_studio_uuid

\* self.home_studio = await self.studios_api.get_studio_detail(...): the call goes out
CreateStudioSend ==
    /\ pc = "member_loaded"
    /\ DoSend("studio", API_BASE_URL, <<"studios", HomeStudioArg>>, FALSE, EmptyMap, FALSE,
              EmptyMap)
    /\ calls' = Append(calls, [api |-> "studio", arg |-> HomeStudioArg])
    /\ pc' = "studio_wait"
    /\ UNCHANGED <<nonApiVars, user, session, sessionsCreated, closeCount, closeRun, discarded,
                   facades, member, home_studio>>

\* The Api is in the hands of a caller: create returned it, or the caller
\* constructed it directly
Held == pc \in {"ready", "direct"} /\ ~discarded

\* A holder may start a dispatch at any time, also while others are outstanding.
CanDispatch == Held /\ BagCardinality(inflight) < MaxInFlight

\* what a dispatch helper leaves alone
DispatchFrame ==
    UNCHANGED <<nonApiVars, pc, user, session, sessionsCreated, closeCount, closeRun,
                discarded, facades, member, home_studio, calls>>

\* Api._classes_request
ClassesRequest ==
    /\ CanDispatch
    /\ \E p \in FacadeParams, h \in FacadeHeaders :
          DoSend("caller", API_IO_BASE_URL, <<"classes">>, p.has, p.map, h.has, h.map)
    /\ DispatchFrame

\* Api._default_request
DefaultRequest ==
    /\ CanDispatch
    /\ \E p \in FacadeParams, h \in FacadeHeaders :
          DoSend("caller", API_BASE_URL, <<"member", "bookings">>, p.has, p.map, h.has, h.map)
    /\ DispatchFrame

\* Api._dna_request
DnaRequest ==
    /\ CanDispatch
    /\ \E p \in FacadeParams, h \in FacadeHeaders :
          DoSend("caller", API_DNA_BASE_URL, <<"telemetry">>, p.has, p.map, h.has, h.map)
    /\ DispatchFrame

\* Api._performance_summary_request
PerformanceSummaryRequest ==
    /\ CanDispatch
    /\ \E p \in FacadeParams, h \in FacadeHeaders :
          DoSend("caller", API_IO_BASE_URL, <<"performance-summaries">>, p.has, p.map, h.has,
                 h.map)
    /\ DispatchFrame

\* Api._do, lines 107-108: the response of one outstanding request arrives and
\* its status is checked; the coroutine then suspends in `await response.json()`.
\* When the session was closed under the request, the HTTP library either
\* still delivers the response or fails the request with a connection error.
DoRaiseForStatus ==
    /\ \E e \in BagToSet(inflight), status \in Statuses, lost \in BOOLEAN :
       \E result \in FacadeResults(e.owner) :
          /\ e.phase = "sent"
          /\ lost => session.closed
          /\ IF lost
             THEN Finish(e, 0, "ClientConnectionError", 0, FALSE, result)
             ELSE IF RaiseForStatus(status)
             THEN Finish(e, status, "ClientResponseError", status, FALSE, result)
             ELSE /\ inflight' = (inflight (-) SetToBag({e}))
                                     (+) SetToBag({[e EXCEPT !.phase = "checked", !.status = status]})
                  /\ UNCHANGED <<pc, member, home_studio, done>>
    /\ UNCHANGED <<nonApiVars, user, session, sessionsCreated, closeCount, closeRun,
                   discarded, facades, calls, call, req>>

\* Api._do, line 109: response.json() reads the body, raises ContentTypeError
\* (a ClientResponseError carrying the status) when the response does not
\* declare JSON, and otherwise decodes the body, which fails when it is not
\* JSON; this goes on whether or not the session was closed in the meantime
DoJson ==
    /\ \E e \in BagToSet(inflight), typeIsJson \in BOOLEAN, bodyIsJson \in BOOLEAN :
       \E result \in FacadeResults(e.owner) :
          /\ e.phase = "checked"
          /\ IF ~typeIsJson
             THEN Finish(e, e.status, "ContentTypeError", e.status, FALSE, result)
             ELSE Finish(e, e.status, IF bodyIsJson THEN "json" ELSE "DecodeError", 0, TRUE,
                         result)
    /\ UNCHANGED <<nonApiVars, user, session, sessionsCreated, closeCount, closeRun,
                   discarded, facades, calls, call, req>>

\* the id token's expiry time passes; nothing in the Api reacts to it
TokenExpires ==
    /\ user.present
    /\ ~user.expired
    /\ user' = [user EXCEPT !.expired = TRUE]
    /\ UNCHANGED <<nonApiVars, pc, session, sessionsCreated, closeCount, closeRun, discarded,
                   facades, member, home_studio, calls, call, req, inflight, done>>

\* Api._close_session up to its first suspension: self.session of an object
\* whose __init__ raised does not exist (AttributeError); a session that is not
\* closed has close() called on it, with no suspension between the check and
\* the call. ClientSession.close() marks the session closed as it starts, and
\* then returns at once or suspends (`suspends`) until the connections are gone.
CloseSession(suspends) ==
    IF sessionsCreated = 0
    THEN [session |-> session, closeCount |-> closeCount, result |-> "AttributeError"]
    ELSE IF session.closed
    THEN [session |-> session, closeCount |-> closeCount, result |-> "done"]
    ELSE [session |-> [session EXCEPT !.closed = TRUE,
                                      !.closing = IF suspends THEN 1 ELSE 0],
          closeCount |-> closeCount + 1,
          result |-> IF suspends THEN "closing" ELSE "done"]

\* an explicit await api._close_session() by a holder of the Api
CloseSessionCall ==
    /\ Held
    /\ \E suspends \in BOOLEAN :
          /\ session' = CloseSession(suspends).session
          /\ closeCount' = CloseSession(suspends).closeCount
    /\ UNCHANGED <<nonApiVars, pc, user, sessionsCreated, closeRun, discarded, facades, member,
                   home_studio, calls, call, req, inflight, done>>

\* the _close_session suspended in close() resumes and returns
CloseFinish ==
    /\ session.closing > 0
    /\ session' = [session EXCEPT !.closing = 0]
    /\ closeRun' = IF closeRun = "closing" THEN "done" ELSE closeRun
    /\ UNCHANGED <<nonApiVars, pc, user, sessionsCreated, closeCount, discarded, facades, member,
                   home_studio, calls, call, req, inflight, done>>

\* The object becomes garbage when __init__ or create raised, or when its
\* holder drops it; a coroutine of the object that is still suspended keeps
\* it alive.
Unreferenced ==
    /\ ~discarded
    /\ pc \in {"auth_failed", "create_failed", "ready", "direct"}
    /\ BagCardinality(inflight) = 0
    /\ session.closing = 0

\* Api.__del__ with a running event loop: asyncio.create_task(self._close_session())
DelSchedule ==
    /\ Unreferenced
    /\ discarded' = TRUE
    /\ closeRun' = "pending"
    /\ UNCHANGED <<nonApiVars, pc, user, session, sessionsCreated, closeCount, facades, member,
                   home_studio, calls, call, req, inflight, done>>

\* Api.__del__ without one: create_task raises RuntimeError, and
\* loop.run_until_complete(self._close_session()) runs _close_session to its
\* end on a new loop
DelRunSync ==
    /\ Unreferenced
    /\ discarded' = TRUE
    /\ session' = CloseSession(FALSE).session
    /\ closeCount' = CloseSession(FALSE).closeCount
    /\ closeRun' = CloseSession(FALSE).result
    /\ UNCHANGED <<nonApiVars, pc, user, sessionsCreated, facades, member,
                   home_studio, calls, call, req, inflight, done>>

\* the loop runs the task __del__ scheduled, up to its first suspension
CloseTaskRun ==
    /\ closeRun = "pending"
    /\ \E suspends \in BOOLEAN :
          /\ session' = CloseSession(suspends).session
          /\ closeCount' = CloseSession(suspends).closeCount
          /\ closeRun' = CloseSession(suspends).result
    /\ UNCHANGED <<nonApiVars, pc, user, sessionsCreated, discarded, facades, member,
                   home_studio, calls, call, req, inflight, done>>

\* the loop stops with the task unfinished and asyncio.run cancels it, or the
\* loop is never run again: before the task's first step _close_session never
\* executes; suspended in close(), it never returns
CloseTaskCancel ==
    /\ closeRun \in {"pending", "closing"}
    /\ closeRun' = "cancelled"
    /\ session' = [session EXCEPT !.closing = 0]
    /\ UNCHANGED <<nonApiVars, pc, user, sessionsCreated, closeCount, discarded, facades,
                   member, home_studio, calls, call, req, inflight, done>>

ApiIdle ==
    /\ pc = "start" /\ user = NoUser /\ session = NoSession
    /\ sessionsCreated = 0 /\ closeCount = 0 /\ closeRun = "none" /\ discarded = FALSE
    /\ facades = [f \in FacadeNames |-> "unbound"]
    /\ member = NoMember /\ home_studio = NoStudio /\ calls = <<>>
    /\ call = NoCall /\ req = NoReq /\ inflight = EmptyBag /\ done = NoDone

EnumIdle ==
    /\ key = <<>>
    /\ lookup = [op |-> "none", outcome |-> "none", returns |-> "none", result |-> <<>>]
TableIdle == columns = <<>> /\ table = [phase |-> "none", columns |-> <<>>, headers |-> <<>>]

InitApi == ApiIdle /\ EnumIdle /\ TableIdle

NextApi ==
    \/ Construct
    \/ ConstructAuthFail
    \/ CreateMemberSend
    \/ CreateStudioSend
    \/ ClassesRequest
    \/ DefaultRequest
    \/ DnaRequest
    \/ PerformanceSummaryRequest
    \/ DoRaiseForStatus
    \/ DoJson
    \/ TokenExpires
    \/ CloseSessionCall
    \/ CloseFinish
    \/ DelSchedule
    \/ DelRunSync
    \/ CloseTaskRun
    \/ CloseTaskCancel

SpecApi == InitApi /\ [][NextApi]_vars

----------------------------------------------------------------------------
(* Api._do as a function of its arguments: the Api is ready, as create leaves *)
(* it, and the arguments of the next dispatch are drawn.                      *)

Hosts == {API_BASE_URL, API_IO_BASE_URL, API_DNA_BASE_URL}
ParamKeys == {"limit", "status"}
ParamValues == {NoneVal, "0", "False", "", "x"}
ParamMaps == UNION {[S -> ParamValues] : S \in SUBSET ParamKeys}
HeaderKeys == {"Authorization", "Content-Type", "Accept", "X-Custom"}
HeaderMaps == UNION {[S -> {"caller"}] : S \in SUBSET HeaderKeys}

ReadyApi ==
    /\ pc = "ready"
    /\ user = LoadFromDisk
    /\ session = [id |-> 1, closed |-> FALSE, closing |-> 0]
    /\ sessionsCreated = 1 /\ closeCount = 0 /\ closeRun = "none" /\ discarded = FALSE
    /\ facades = [f \in FacadeNames |-> "self"]
    /\ inflight = EmptyBag
    /\ done = [owner |-> "studio", nSent |-> 1, status |-> 200, outcome |-> "json",
               errStatus |-> 0, decoded |-> TRUE]
    /\ \E uuid \in StudioUUIDs, returned \in StudioUUIDs :
          /\ member = [present |-> TRUE, home_studio_uuid |-> uuid]
          /\ home_studio = [present |-> TRUE, studio_uuid |-> returned]
          /\ calls = <<[api |-> "member", arg |-> ""], [api |-> "studio", arg |-> uuid]>>
          /\ req = [nSent |-> 1, host |-> API_BASE_URL, url |-> <<"studios", uuid>>,
                    params |-> EmptyMap, headers |-> BaseHeaders, session |-> 1,
                    sentExpired |-> FALSE]

InitDispatch ==
    /\ ReadyApi
    /\ \E h \in Hosts, p \in ParamMaps, hp \in BOOLEAN, hd \in HeaderMaps, hh \in BOOLEAN :
          call = [state |-> "args", base_url |-> h, url |-> <<"bookings">>,
                  hasParams |-> hp, params |-> IF hp THEN p ELSE EmptyMap,
                  hasHeaders |-> hh, headers |-> IF hh THEN hd ELSE EmptyMap]
    /\ EnumIdle /\ TableIdle

\* Api._do on the drawn arguments
DoCall ==
    /\ call.state = "args"
    /\ CanDispatch
    /\ DoSend("caller", call.base_url, call.url, call.hasParams, call.params, call.hasHeaders,
              call.headers)
    /\ DispatchFrame

NextDispatch ==
    \/ DoCall
    \/ DoRaiseForStatus
    \/ DoJson

SpecDispatch == InitDispatch /\ [][NextDispatch]_vars

----------------------------------------------------------------------------
(* Claims about the session and the dispatcher *)

\* C1: no request is sent whose Authorization header holds an id token that has
\* already expired at the moment of sending.
C1_NoExpiredTokenSent == req.nSent = 1 => ~req.sentExpired

\* C2: the session of an Api object has close() performed on it at most
\* once, and once the object is discarded and the close that __del__ started
\* is over (run, failed or cancelled), the session is closed and was closed
\* exactly once.
C2_ReleasedOnce ==
    sessionsCreated = 1 =>
        /\ closeCount <= 1
        /\ (discarded /\ closeRun \notin {"pending", "closing"}) =>
               (session.closed /\ closeCount = 1)

\* C3: with caller headers, the headers sent are the union of caller and auth
\* headers, the auth value wins on Authorization, Content-Type and Accept, and
\* other caller keys are unchanged; without caller headers exactly the base
\* headers are sent.
C3_AuthHeadersWin ==
    (call.state = "run" /\ req.nSent = 1) =>
        LET auth == {"Authorization", "Content-Type", "Accept"}
            given == IF call.hasHeaders THEN call.headers ELSE EmptyMap
        IN  /\ DOMAIN req.headers = DOMAIN given \cup auth
            /\ req.headers["Authorization"] = "Bearer " \o user.id_token
            /\ req.headers["Content-Type"] = "application/json"
            /\ req.headers["Accept"] = "application/json"
            /\ \A k \in DOMAIN given \ auth : req.headers[k] = given[k]

C3_Witness ==
    /\ call.state = "run" /\ req.nSent = 1
    /\ call.hasHeaders
    /\ {"Authorization", "X-Custom"} \subseteq DOMAIN call.headers

\* C4: a key is in the query parameters sent iff its value in the given mapping
\* is not null, and every key sent keeps its value, falsy values included.
C4_NullParamsDropped ==
    (call.state = "run" /\ req.nSent = 1) =>
        LET given == IF call.hasParams THEN call.params ELSE EmptyMap
        IN  /\ DOMAIN req.params = {k \in DOMAIN given : given[k] # NoneVal}
            /\ \A k \in DOMAIN req.params : req.params[k] = given[k]

C4_Witness ==
    /\ call.state = "run" /\ req.nSent = 1
    /\ call.hasParams
    /\ \E k1, k2 \in DOMAIN call.params :
          call.params[k1] = NoneVal /\ call.params[k2] \in {"0", "False", ""}

\* C5: a response with a non-2xx status fails with the HTTP error carrying
\* that status, before any JSON decoding, after exactly one request, and no
\* JSON is returned.
C5_Non2xxRaises ==
    (done.status # 0 /\ done.status \notin 200..299) =>
        /\ done.outcome \in {"ClientResponseError", "ContentTypeError"}
        /\ done.errStatus = done.status
        /\ ~done.decoded
        /\ done.nSent = 1

\* C6: create opens one session, then calls member detail, then home-studio
\* detail with the member's home studio UUID; it returns only with both
\* populated; a failed member call leaves the studio call unissued.
C6_CreateOrder ==
    /\ sessionsCreated <= 1
    /\ Len(calls) <= 2
    /\ Len(calls) >= 1 => (sessionsCreated = 1 /\ calls[1] = [api |-> "member", arg |-> ""])
    /\ Len(calls) = 2 =>
          /\ member.present
          /\ calls[2] = [api |-> "studio", arg |-> member.home_studio_uuid]
    /\ home_studio.present => Len(calls) = 2
    /\ pc = "ready" => (member.present /\ home_studio.present)
    /\ ~member.present => (Len(calls) <= 1 /\ pc # "ready" /\ ~home_studio.present)

C6_Witness ==
    /\ pc = "ready" /\ member.present /\ home_studio.present
    /\ member.home_studio_uuid = "studio-2"
    /\ Len(calls) = 2

\* C9: one session is created, in the constructor; every facade holds the
\* owning Api; every dispatch goes out on that session.
C9_OneSession ==
    /\ sessionsCreated <= 1
    /\ user.present =>
          /\ sessionsCreated = 1
          /\ session.id = 1
          /\ \A f \in FacadeNames : facades[f] = "self"
    /\ req.nSent = 1 => req.session = session.id

C9_Witness ==
    /\ pc = "ready" /\ req.nSent = 1
    /\ req.host = API_DNA_BASE_URL
    /\ BagCardinality(inflight) = MaxInFlight

----------------------------------------------------------------------------
(* Text: Python str as a sequence of characters *)

UpperCase == <<"A", "B", "C", "D", "E", "F", "G", "H", "I", "J", "K", "L", "M",
               "N", "O", "P", "Q", "R", "S", "T", "U", "V", "W", "X", "Y", "Z">>
LowerCase == <<"a", "b", "c", "d", "e", "f", "g", "h", "i", "j", "k", "l", "m",
               "n", "o", "p", "q", "r", "s", "t", "u", "v", "w", "x", "y", "z">>

LowerChar(c) ==
    IF \E i \in DOMAIN UpperCase : UpperCase[i] = c
    THEN LowerCase[CHOOSE i \in DOMAIN UpperCase : UpperCase[i] = c]
    ELSE c
UpperChar(c) ==
    IF \E i \in DOMAIN LowerCase : LowerCase[i] = c
    THEN UpperCase[CHOOSE i \in DOMAIN LowerCase : LowerCase[i] = c]
    ELSE c

\* str.lower(), str.upper()
Lower(s) == [i \in 1..Len(s) |-> LowerChar(s[i])]
Upper(s) == [i \in 1..Len(s) |-> UpperChar(s[i])]

\* str.startswith
StartsWith(s, prefix) ==
    /\ Len(prefix) <= Len(s)
    /\ SubSeq(s, 1, Len(prefix)) = prefix

\* str.endswith
EndsWith(s, suffix) ==
    /\ Len(suffix) <= Len(s)
    /\ SubSeq(s, Len(s) - Len(suffix) + 1, Len(s)) = suffix

\* s.split(".")[-1]
LastSegment(s) ==
    LET dots == {i \in 1..Len(s) : s[i] = "."}
    IN  IF dots = {} THEN s
        ELSE SubSeq(s, (CHOOSE i \in dots : \A j \in dots : j <= i) + 1, Len(s))

\* s.replace("_", " ")
Spaced(s) == [i \in 1..Len(s) |-> IF s[i] = "_" THEN " " ELSE s[i]]

\* a text that names nothing
Bogus == <<"b", "o", "g", "u", "s">>

\* the elements of a sequence
Range(s) == {s[i] : i \in DOMAIN s}

----------------------------------------------------------------------------
(* src/src/otf_api/models/responses/bookings.py: the status enums *)

\* An enum is its members in definition order, each a name and a value.
Member(n, v) == [name |-> n, value |-> v]

StudioStatus == <<
    Member(<<"O", "T", "H", "E", "R">>,
           <<"O", "T", "H", "E", "R">>),
    Member(<<"A", "C", "T", "I", "V", "E">>,
           <<"A", "c", "t", "i", "v", "e">>),
    Member(<<"I", "N", "A", "C", "T", "I", "V", "E">>,
           <<"I", "n", "a", "c", "t", "i", "v", "e">>),
    Member(<<"C", "O", "M", "I", "N", "G", "_", "S", "O", "O", "N">>,
           <<"C", "o", "m", "i", "n", "g", " ", "S", "o", "o", "n">>),
    Member(<<"T", "E", "M", "P", "_", "C", "L", "O", "S", "E", "D">>,
           <<"T", "e", "m", "p", "o", "r", "a", "r", "i", "l", "y", " ", "C", "l", "o", "s", "e", "d">>),
    Member(<<"P", "E", "R", "M", "_", "C", "L", "O", "S", "E", "D">>,
           <<"P", "e", "r", "m", "a", "n", "e", "n", "t", "l", "y", " ", "C", "l", "o", "s", "e", "d">>)
>>

BookingStatus == <<
    Member(<<"C", "h", "e", "c", "k", "e", "d", "I", "n">>,
           <<"C", "h", "e", "c", "k", "e", "d", " ", "I", "n">>),
    Member(<<"C", "a", "n", "c", "e", "l", "C", "h", "e", "c", "k", "i", "n", "P", "e", "n", "d", "i", "n", "g">>,
           <<"C", "a", "n", "c", "e", "l", " ", "C", "h", "e", "c", "k", "i", "n", " ", "P", "e", "n", "d", "i", "n", "g">>),
    Member(<<"C", "a", "n", "c", "e", "l", "C", "h", "e", "c", "k", "i", "n", "R", "e", "q", "u", "e", "s", "t", "e", "d">>,
           <<"C", "a", "n", "c", "e", "l", " ", "C", "h", "e", "c", "k", "i", "n", " ", "R", "e", "q", "u", "e", "s", "t", "e", "d">>),
    Member(<<"C", "a", "n", "c", "e", "l", "l", "e", "d">>,
           <<"C", "a", "n", "c", "e", "l", "l", "e", "d">>),
    Member(<<"L", "a", "t", "e", "C", "a", "n", "c", "e", "l", "l", "e", "d">>,
           <<"L", "a", "t", "e", " ", "C", "a", "n", "c", "e", "l", "l", "e", "d">>),
    Member(<<"B", "o", "o", "k", "e", "d">>,
           <<"B", "o", "o", "k", "e", "d">>),
    Member(<<"W", "a", "i", "t", "l", "i", "s", "t", "e", "d">>,
           <<"W", "a", "i", "t", "l", "i", "s", "t", "e", "d">>),
    Member(<<"C", "h", "e", "c", "k", "i", "n", "P", "e", "n", "d", "i", "n", "g">>,
           <<"C", "h", "e", "c", "k", "i", "n", " ", "P", "e", "n", "d", "i", "n", "g">>),
    Member(<<"C", "h", "e", "c", "k", "i", "n", "R", "e", "q", "u", "e", "s", "t", "e", "d">>,
           <<"C", "h", "e", "c", "k", "i", "n", " ", "R", "e", "q", "u", "e", "s", "t", "e", "d">>),
    Member(<<"C", "h", "e", "c", "k", "i", "n", "C", "a", "n", "c", "e", "l", "l", "e", "d">>,
           <<"C", "h", "e", "c", "k", "i", "n", " ", "C", "a", "n", "c", "e", "l", "l", "e", "d">>)
>>

BookingStatusCli == <<
    Member(<<"C", "h", "e", "c", "k", "e", "d", "I", "n">>,
           <<"C", "h", "e", "c", "k", "e", "d", "I", "n">>),
    Member(<<"C", "a", "n", "c", "e", "l", "C", "h", "e", "c", "k", "i", "n", "P", "e", "n", "d", "i", "n", "g">>,
           <<"C", "a", "n", "c", "e", "l", "C", "h", "e", "c", "k", "i", "n", "P", "e", "n", "d", "i", "n", "g">>),
    Member(<<"C", "a", "n", "c", "e", "l", "C", "h", "e", "c", "k", "i", "n", "R", "e", "q", "u", "e", "s", "t", "e", "d">>,
           <<"C", "a", "n", "c", "e", "l", "C", "h", "e", "c", "k", "i", "n", "R", "e", "q", "u", "e", "s", "t", "e", "d">>),
    Member(<<"C", "a", "n", "c", "e", "l", "l", "e", "d">>,
           <<"C", "a", "n", "c", "e", "l", "l", "e", "d">>),
    Member(<<"L", "a", "t", "e", "C", "a", "n", "c", "e", "l", "l", "e", "d">>,
           <<"L", "a", "t", "e", "C", "a", "n", "c", "e", "l", "l", "e", "d">>),
    Member(<<"B", "o", "o", "k", "e", "d">>,
           <<"B", "o", "o", "k", "e", "d">>),
    Member(<<"W", "a", "i", "t", "l", "i", "s", "t", "e", "d">>,
           <<"W", "a", "i", "t", "l", "i", "s", "t", "e", "d">>),
    Member(<<"C", "h", "e", "c", "k", "i", "n", "P", "e", "n", "d", "i", "n", "g">>,
           <<"C", "h", "e", "c", "k", "i", "n", "P", "e", "n", "d", "i", "n", "g">>),
    Member(<<"C", "h", "e", "c", "k", "i", "n", "R", "e", "q", "u", "e", "s", "t", "e", "d">>,
           <<"C", "h", "e", "c", "k", "i", "n", "R", "e", "q", "u", "e", "s", "t", "e", "d">>),
    Member(<<"C", "h", "e", "c", "k", "i", "n", "C", "a", "n", "c", "e", "l", "l", "e", "d">>,
           <<"C", "h", "e", "c", "k", "i", "n", "C", "a", "n", "c", "e", "l", "l", "e", "d">>)
>>

\* {item.lower(): item for item in ...}[k]: the last item whose lowered text
\* is k, or a KeyError when there is none.  `texts` are the items in order.
LowerIndex(texts, k) ==
    LET hits == {i \in DOMAIN texts : Lower(texts[i]) = k}
    IN  IF hits = {} THEN 0 ELSE CHOOSE i \in hits : \A j \in hits : j <= i

Names(enum) == [i \in DOMAIN enum |-> enum[i].name]
Values(enum) == [i \in DOMAIN enum |-> enum[i].value]

NoLookup == [op |-> "none", outcome |-> "none", returns |-> "none", result |-> <<>>]
Raised(op, error) == [op |-> op, outcome |-> error, returns |-> "none", result |-> <<>>]
\* a returned enum member is given by its enum and its name
ReturnedMember(op, enum, m) == [op |-> op, outcome |-> "ok", returns |-> enum, result |-> m.name]
ReturnedStr(op, text) == [op |-> op, outcome |-> "ok", returns |-> "str", result |-> text]

\* Enum.__call__: EnumClass(value) looks the value up exactly
EnumCall(op, enumName, enum, value) ==
    LET hits == {i \in DOMAIN enum : enum[i].value = value}
    IN  IF hits = {} THEN Raised(op, "ValueError")
        ELSE ReturnedMember(op, enumName, enum[CHOOSE i \in hits : \A j \in hits : i <= j])

\* BookingStatus.get_from_key_insensitive
BookingStatus_get_from_key_insensitive(k) ==
    LET op == "BookingStatus.get_from_key_insensitive"
        i == LowerIndex(Names(BookingStatus), Lower(k))
    IN  IF i = 0 THEN Raised(op, "KeyError")
        ELSE IF BookingStatus[i].value = <<>> THEN Raised(op, "ValueError")
        ELSE ReturnedMember(op, "BookingStatus", BookingStatus[i])

\* BookingStatus.get_case_insensitive
BookingStatus_get_case_insensitive(value) ==
    LET op == "BookingStatus.get_case_insensitive"
        i == LowerIndex(Values(BookingStatus), Lower(value))
    IN  IF i = 0 THEN Raised(op, "KeyError")
        ELSE ReturnedStr(op, BookingStatus[i].value)

\* BookingStatusCli.to_standard_case_insensitive
BookingStatusCli_to_standard_case_insensitive(k) ==
    LET op == "BookingStatusCli.to_standard_case_insensitive"
        i == LowerIndex(Names(BookingStatusCli), Lower(k))
    IN  IF i = 0 THEN Raised(op, "KeyError")
        ELSE IF BookingStatusCli[i].value = <<>> THEN Raised(op, "ValueError")
        ELSE EnumCall(op, "BookingStatus", BookingStatus, BookingStatusCli[i].value)

\* BookingStatusCli.get_case_insensitive
BookingStatusCli_get_case_insensitive(value) ==
    LET op == "BookingStatusCli.get_case_insensitive"
        i == LowerIndex(Values(BookingStatusCli), Lower(value))
    IN  IF i = 0 THEN Raised(op, "KeyError")
        ELSE ReturnedStr(op, BookingStatusCli[i].value)

\* Studio.status: StudioStatus -- the field is validated by value
StudioStatus_validate(value) == EnumCall("StudioStatus", "StudioStatus", StudioStatus, value)

\* Booking.status: BookingStatus -- the field is validated by value
BookingStatus_validate(value) == EnumCall("BookingStatus", "BookingStatus", BookingStatus, value)

\* The keys looked up: every member name and value of the enums as written, in
\* lower case and in upper case, and two texts that match nothing.
EnumTexts ==
    UNION {{StudioStatus[i].name, StudioStatus[i].value} : i \in DOMAIN StudioStatus}
    \cup UNION {{BookingStatus[i].name, BookingStatus[i].value} : i \in DOMAIN BookingStatus}
EnumKeys ==
    EnumTexts \cup {Lower(t) : t \in EnumTexts} \cup {Upper(t) : t \in EnumTexts}
    \cup {Bogus, <<>>}

InitEnum ==
    /\ key \in EnumKeys
    /\ lookup = NoLookup
    /\ ApiIdle /\ TableIdle

EnumFrame == UNCHANGED <<apiVars, tableVars, key>>

GetFromKeyInsensitive ==
    /\ lookup = NoLookup
    /\ lookup' = BookingStatus_get_from_key_insensitive(key)
    /\ EnumFrame

GetCaseInsensitive ==
    /\ lookup = NoLookup
    /\ lookup' = BookingStatus_get_case_insensitive(key)
    /\ EnumFrame

ToStandardCaseInsensitive ==
    /\ lookup = NoLookup
    /\ lookup' = BookingStatusCli_to_standard_case_insensitive(key)
    /\ EnumFrame

CliGetCaseInsensitive ==
    /\ lookup = NoLookup
    /\ lookup' = BookingStatusCli_get_case_insensitive(key)
    /\ EnumFrame

ValidateStudioStatus ==
    /\ lookup = NoLookup
    /\ lookup' = StudioStatus_validate(key)
    /\ EnumFrame

ValidateBookingStatus ==
    /\ lookup = NoLookup
    /\ lookup' = BookingStatus_validate(key)
    /\ EnumFrame

NextEnum ==
    \/ GetFromKeyInsensitive
    \/ GetCaseInsensitive
    \/ ToStandardCaseInsensitive
    \/ CliGetCaseInsensitive
    \/ ValidateStudioStatus
    \/ ValidateBookingStatus

SpecEnum == InitEnum /\ [][NextEnum]_vars

----------------------------------------------------------------------------
(* src/src/otf_api/models/responses/bookings.py: column headers *)

\* Studio.model_fields
StudioFields == <<
    <<"s", "t", "u", "d", "i", "o", "_", "u", "u", "i", "d">>,
    <<"s", "t", "u", "d", "i", "o", "_", "n", "a", "m", "e">>,
    <<"d", "e", "s", "c", "r", "i", "p", "t", "i", "o", "n">>,
    <<"c", "o", "n", "t", "a", "c", "t", "_", "e", "m", "a", "i", "l">>,
    <<"s", "t", "a", "t", "u", "s">>,
    <<"l", "o", "g", "o", "_", "u", "r", "l">>,
    <<"t", "i", "m", "e", "_", "z", "o", "n", "e">>,
    <<"m", "b", "o", "_", "s", "t", "u", "d", "i", "o", "_", "i", "d">>,
    <<"s", "t", "u", "d", "i", "o", "_", "i", "d">>,
    <<"a", "l", "l", "o", "w", "s", "_", "c", "r", "_", "w", "a", "i", "t", "l", "i", "s", "t">>,
    <<"c", "r", "_", "w", "a", "i", "t", "l", "i", "s", "t", "_", "f", "l", "a", "g", "_", "l", "a", "s", "t", "_", "u", "p", "d", "a", "t", "e", "d">>,
    <<"s", "t", "u", "d", "i", "o", "_", "l", "o", "c", "a", "t", "i", "o", "n">>
>>

\* OtfClass.model_fields
OtfClassFields == <<
    <<"c", "l", "a", "s", "s", "_", "u", "u", "i", "d">>,
    <<"n", "a", "m", "e">>,
    <<"d", "e", "s", "c", "r", "i", "p", "t", "i", "o", "n">>,
    <<"s", "t", "a", "r", "t", "s", "_", "a", "t", "_", "l", "o", "c", "a", "l">>,
    <<"e", "n", "d", "s", "_", "a", "t", "_", "l", "o", "c", "a", "l">>,
    <<"i", "s", "_", "a", "v", "a", "i", "l", "a", "b", "l", "e">>,
    <<"i", "s", "_", "c", "a", "n", "c", "e", "l", "l", "e", "d">>,
    <<"p", "r", "o", "g", "r", "a", "m", "_", "n", "a", "m", "e">>,
    <<"c", "o", "a", "c", "h", "_", "i", "d">>,
    <<"s", "t", "u", "d", "i", "o">>,
    <<"c", "o", "a", "c", "h">>,
    <<"l", "o", "c", "a", "t", "i", "o", "n">>,
    <<"v", "i", "r", "t", "u", "a", "l", "_", "c", "l", "a", "s", "s">>
>>

\* Booking.model_fields
BookingFields == <<
    <<"c", "l", "a", "s", "s", "_", "b", "o", "o", "k", "i", "n", "g", "_", "i", "d">>,
    <<"c", "l", "a", "s", "s", "_", "b", "o", "o", "k", "i", "n", "g", "_", "u", "u", "i", "d">>,
    <<"s", "t", "u", "d", "i", "o", "_", "i", "d">>,
    <<"c", "l", "a", "s", "s", "_", "i", "d">>,
    <<"i", "s", "_", "i", "n", "t", "r", "o">>,
    <<"m", "e", "m", "b", "e", "r", "_", "i", "d">>,
    <<"m", "b", "o", "_", "m", "e", "m", "b", "e", "r", "_", "i", "d">>,
    <<"m", "b", "o", "_", "c", "l", "a", "s", "s", "_", "i", "d">>,
    <<"m", "b", "o", "_", "v", "i", "s", "i", "t", "_", "i", "d">>,
    <<"m", "b", "o", "_", "w", "a", "i", "t", "l", "i", "s", "t", "_", "e", "n", "t", "r", "y", "_", "i", "d">>,
    <<"m", "b", "o", "_", "s", "y", "n", "c", "_", "m", "e", "s", "s", "a", "g", "e">>,
    <<"s", "t", "a", "t", "u", "s">>,
    <<"b", "o", "o", "k", "e", "d", "_", "d", "a", "t", "e">>,
    <<"c", "h", "e", "c", "k", "e", "d", "_", "i", "n", "_", "d", "a", "t", "e">>,
    <<"c", "a", "n", "c", "e", "l", "l", "e", "d", "_", "d", "a", "t", "e">>,
    <<"c", "r", "e", "a", "t", "e", "d", "_", "b", "y">>,
    <<"c", "r", "e", "a", "t", "e", "d", "_", "d", "a", "t", "e">>,
    <<"u", "p", "d", "a", "t", "e", "d", "_", "b", "y">>,
    <<"u", "p", "d", "a", "t", "e", "d", "_", "d", "a", "t", "e">>,
    <<"i", "s", "_", "d", "e", "l", "e", "t", "e", "d">>,
    <<"m", "e", "m", "b", "e", "r">>,
    <<"w", "a", "i", "t", "l", "i", "s", "t", "_", "p", "o", "s", "i", "t", "i", "o", "n">>,
    <<"o", "t", "f", "_", "c", "l", "a", "s", "s">>,
    <<"i", "s", "_", "h", "o", "m", "e", "_", "s", "t", "u", "d", "i", "o">>
>>

\* the overrides of attr_to_column_header (the same in OtfClass and Booking)
Overrides == <<
    [attr |-> <<"d", "a", "y", "_", "o", "f", "_", "w", "e", "e", "k">>,
     header |-> <<"C", "l", "a", "s", "s", " ", "D", "o", "W">>],
    [attr |-> <<"d", "a", "t", "e">>,
     header |-> <<"C", "l", "a", "s", "s", " ", "D", "a", "t", "e">>],
    [attr |-> <<"t", "i", "m", "e">>,
     header |-> <<"C", "l", "a", "s", "s", " ", "T", "i", "m", "e">>],
    [attr |-> <<"d", "u", "r", "a", "t", "i", "o", "n">>,
     header |-> <<"C", "l", "a", "s", "s", " ", "D", "u", "r", "a", "t", "i", "o", "n">>],
    [attr |-> <<"n", "a", "m", "e">>,
     header |-> <<"C", "l", "a", "s", "s", " ", "N", "a", "m", "e">>],
    [attr |-> <<"i", "s", "_", "h", "o", "m", "e", "_", "s", "t", "u", "d", "i", "o">>,
     header |-> <<"H", "o", "m", "e", " ", "S", "t", "u", "d", "i", "o">>],
    [attr |-> <<"i", "s", "_", "b", "o", "o", "k", "e", "d">>,
     header |-> <<"B", "o", "o", "k", "e", "d">>]
>>

\* BookingList.show_bookings_columns
ShowBookingsColumns == <<
    <<"o", "t", "f", "_", "c", "l", "a", "s", "s", ".", "d", "a", "y", "_", "o", "f", "_", "w", "e", "e", "k">>,
    <<"o", "t", "f", "_", "c", "l", "a", "s", "s", ".", "d", "a", "t", "e">>,
    <<"o", "t", "f", "_", "c", "l", "a", "s", "s", ".", "t", "i", "m", "e">>,
    <<"o", "t", "f", "_", "c", "l", "a", "s", "s", ".", "d", "u", "r", "a", "t", "i", "o", "n">>,
    <<"o", "t", "f", "_", "c", "l", "a", "s", "s", ".", "n", "a", "m", "e">>,
    <<"s", "t", "a", "t", "u", "s">>,
    <<"o", "t", "f", "_", "c", "l", "a", "s", "s", ".", "s", "t", "u", "d", "i", "o", ".", "s", "t", "u", "d", "i", "o", "_", "n", "a", "m", "e">>,
    <<"i", "s", "_", "h", "o", "m", "e", "_", "s", "t", "u", "d", "i", "o">>
>>

OtfClassPrefix == <<"o", "t", "f", "_", "c", "l", "a", "s", "s">>
OtfClassDot == <<"o", "t", "f", "_", "c", "l", "a", "s", "s", ".">>
StudioDot == <<"o", "t", "f", "_", "c", "l", "a", "s", "s", ".", "s", "t", "u", "d", "i", "o", ".">>
IdSuffix == <<"_", "i", "d">>


\* inflection.humanize: drop a trailing "_id", turn "_" into " ", lower-case
\* the text and capitalise its first character
Humanize(word) ==
    LET w == IF EndsWith(word, IdSuffix) THEN SubSeq(word, 1, Len(word) - Len(IdSuffix))
             ELSE word
        l == Lower(Spaced(w))
    IN  [i \in 1..Len(l) |-> IF i = 1 THEN UpperChar(l[i]) ELSE l[i]]

\* attr_map = {k: humanize(k) for k in cls.model_fields}; attr_map.update(overrides);
\* return attr_map.get(attr, attr)
HeaderIn(modelFields, attr) ==
    IF \E i \in DOMAIN Overrides : Overrides[i].attr = attr
    THEN Overrides[CHOOSE i \in DOMAIN Overrides : Overrides[i].attr = attr].header
    ELSE IF attr \in Range(modelFields) THEN Humanize(attr)
    ELSE attr

\* OtfClass.attr_to_column_header
OtfClass_attr_to_column_header(attr) == HeaderIn(OtfClassFields, attr)

\* Booking.attr_to_column_header
Booking_attr_to_column_header(attr) ==
    IF StartsWith(attr, OtfClassPrefix)
    THEN OtfClass_attr_to_column_header(LastSegment(attr))
    ELSE HeaderIn(BookingFields, attr)

\* The columns a caller may ask for: fields of the booking, fields and derived
\* attributes of its class, fields of the class's studio, and names of nothing.
OverrideAttrs == {Overrides[i].attr : i \in DOMAIN Overrides}
BookingColumns == Range(BookingFields)
OtfClassColumns == {OtfClassDot \o a : a \in Range(OtfClassFields) \cup OverrideAttrs}
StudioColumns == {StudioDot \o a : a \in Range(StudioFields)}
ColumnPool ==
    BookingColumns \cup OtfClassColumns \cup StudioColumns \cup OverrideAttrs
    \cup {Bogus, OtfClassPrefix}

MaxColumns == 2

ColumnLists == UNION {[1..n -> ColumnPool] : n \in 0..MaxColumns}

NoTable == [phase |-> "none", columns |-> <<>>, headers |-> <<>>]

InitTable ==
    /\ columns \in ColumnLists
    /\ table = NoTable
    /\ ApiIdle /\ EnumIdle

\* OtfListBase.to_table: one header per column, in the order given
ListBase_to_table(cols) == [i \in 1..Len(cols) |-> Booking_attr_to_column_header(cols[i])]

\* BookingList.to_table: no columns means the default columns, and the table
\* of the base class is built for them in the same call
ToTable ==
    /\ table.phase = "none"
    /\ LET cols == IF columns = <<>> THEN ShowBookingsColumns ELSE columns
       IN  table' = [phase |-> "built", columns |-> cols, headers |-> ListBase_to_table(cols)]
    /\ UNCHANGED <<apiVars, enumVars, columns>>

NextTable == ToTable

SpecTable == InitTable /\ [][NextTable]_vars

----------------------------------------------------------------------------
(* Claims about the status enums and the column headers *)

\* the member of `enum` whose `text` (name or value) equals k in lower case
Matching(enum, texts, k) == {i \in DOMAIN enum : Lower(texts[i]) = Lower(k)}

\* C7: status lookup is case-insensitive: a text that equals a member's
\* external string in some casing resolves to that member, and a text that
\* matches no member fails with ValueError.
C7_CaseInsensitiveLookup ==
    /\ lookup.op = "StudioStatus" =>
          LET hits == Matching(StudioStatus, Values(StudioStatus), key)
          IN  IF hits = {} THEN lookup.outcome = "ValueError"
              ELSE /\ lookup.outcome = "ok"
                   /\ \E i \in hits : lookup.result = StudioStatus[i].name
    /\ lookup.op = "BookingStatus.get_case_insensitive" =>
          LET hits == Matching(BookingStatus, Values(BookingStatus), key)
          IN  IF hits = {} THEN lookup.outcome = "ValueError"
              ELSE /\ lookup.outcome = "ok"
                   /\ \E i \in hits : lookup.result = BookingStatus[i].value
    /\ lookup.op = "BookingStatus.get_from_key_insensitive" =>
          LET hits == Matching(BookingStatus, Names(BookingStatus), key)
          IN  IF hits = {} THEN lookup.outcome = "ValueError"
              ELSE /\ lookup.outcome = "ok"
                   /\ \E i \in hits : lookup.result = BookingStatus[i].name

\* C10: to_standard_case_insensitive returns, for a BookingStatusCli member
\* name in any casing, the BookingStatus member of the same name, and fails
\* with ValueError for a key that matches no member.
C10_CliToStandard ==
    lookup.op = "BookingStatusCli.to_standard_case_insensitive" =>
        LET hits == Matching(BookingStatusCli, Names(BookingStatusCli), key)
        IN  IF hits = {} THEN lookup.outcome = "ValueError"
            ELSE /\ lookup.outcome = "ok"
                 /\ lookup.returns = "BookingStatus"
                 /\ \E i \in hits : lookup.result = BookingStatusCli[i].name

\* a column that names a field: of the booking, of its class, of the class's studio
NamesField(col) == col \in BookingColumns \cup OtfClassColumns \cup StudioColumns

\* C8: every requested column that names a field gets the override documented
\* for the field, and the humanized field name when there is none.
C8_HeaderForEveryColumn ==
    \A i \in DOMAIN table.headers :
        LET col == table.columns[i]
            field == LastSegment(col)
        IN  NamesField(col) =>
               table.headers[i] =
                  IF field \in OverrideAttrs
                  THEN Overrides[CHOOSE j \in DOMAIN Overrides : Overrides[j].attr = field].header
                  ELSE Humanize(field)

====
